---- MODULE Spec2Model ----
(***************************************************************************)
(* dock-tor: container image vulnerability scan, severity threshold gate   *)
(* and grouped reporting (src/app/*.py).                                   *)
(*                                                                         *)
(* Python values are modelled as follows.                                  *)
(*   - A str that is only stored, compared or used as a key (image refs,   *)
(*     container names, label keys, dict keys) is a TLA+ string.           *)
(*   - A value read from the scanner's JSON that may be a str or None is   *)
(*     a record [t, v]: t is the Python type, v is str(value).             *)
(*   - A dict is a function from its keys; a list is a sequence.           *)
(*   - str.upper(), str.lower() and str.split("=") are given by their      *)
(*     values on the strings the model draws its inputs from.              *)
(***************************************************************************)
EXTENDS Integers, Sequences, FiniteSets, TLC

\* ------------------------------------------------------------------ bounds
\* Longest container list handed to scan_all.
MaxContainers == 3
\* Longest "Vulnerabilities" list in one result entry of the scanner's JSON.
MaxRecords == 2
\* Longest "Results" list in the scanner's JSON.
MaxResultEntries == 2

\* ------------------------------------------------------------ Python values
PyStr(s) == [t |-> "str", v |-> s]
PyNone == [t |-> "NoneType", v |-> "None"]

\* bool(x) for a str or None.
Truthy(x) == x.t = "str" /\ x.v # ""

\* dict.get(key, default)
Get(d, key, default) == IF key \in DOMAIN d THEN d[key] ELSE default

EmptyDict == [k \in {} |-> 0]

\* str.upper() on the strings of the model.
upper(s) ==
    CASE s = "unknown" -> "UNKNOWN"
      [] s = "low" -> "LOW"
      [] s = "Medium" -> "MEDIUM"
      [] s = "high" -> "HIGH"
      [] s = "Critical" -> "CRITICAL"
      [] s = "bogus" -> "BOGUS"
      [] s = "None" -> "NONE"
      [] OTHER -> s

\* str.lower() on the label values of the model.
lower(s) ==
    CASE s = "TRUE" -> "true"
      [] s = "True" -> "true"
      [] s = "YES" -> "yes"
      [] s = "FALSE" -> "false"
      [] OTHER -> s

\* str.split("=") on the EXCLUDE_LABEL values of the model.
split(s) ==
    CASE s = "docktor.ignore=true" -> <<"docktor.ignore", "true">>
      [] s = "scan.skip=yes" -> <<"scan.skip", "yes">>
      [] s = "scan.skip=YES" -> <<"scan.skip", "YES">>
      [] OTHER -> <<s>>

\* ------------------------------------------------------------ severity model
SEVERITY_ORDER == <<"UNKNOWN", "LOW", "MEDIUM", "HIGH", "CRITICAL">>

\* _SEV_RANK = {v: i for i, v in enumerate(SEVERITY_ORDER)}: 0-based index.
SEV_RANK == [s \in {SEVERITY_ORDER[i] : i \in 1..Len(SEVERITY_ORDER)} |->
                (CHOOSE i \in 1..Len(SEVERITY_ORDER) : SEVERITY_ORDER[i] = s) - 1]

meets_threshold_strict(severity, threshold) ==
    LET s == IF Truthy(severity) THEN upper(severity.v) ELSE "UNKNOWN"
        t == IF threshold # "" THEN upper(threshold) ELSE "LOW"
    IN  Get(SEV_RANK, s, 0) > Get(SEV_RANK, t, 0)

\* severity: a str or None value; threshold: a str.
meets_threshold(severity, threshold) ==
    LET s == IF Truthy(severity) THEN upper(severity.v) ELSE "UNKNOWN"
        t == IF threshold # "" THEN upper(threshold) ELSE "LOW"
    IN  Get(SEV_RANK, s, 0) >= Get(SEV_RANK, t, 0)

\* ------------------------------------------------------- scanner JSON values
\* One element of a "Vulnerabilities" list: a JSON object (t = "dict", d its
\* keys and values) or a JSON string (t = "str").
DictItem(d) == [t |-> "dict", d |-> d]
StrItem == [t |-> "str", d |-> EmptyDict]

\* One element of "Results": kind "list" carries a "Vulnerabilities" list,
\* "absent" has no such key, "null" has it null, "notdict" is not an object.
Entry(kind, vulns) == [kind |-> kind, vulns |-> vulns]

\* What is on disk at json_path after the scanner ran: kind "invalid" is a
\* missing, empty or non-JSON file (the scanner failed), "notdict" is JSON
\* whose top level is not an object, "noresults" an object without
\* "Results", "nullresults" one with "Results": null, "ok" one with a list.
Artifact(kind, results) == [kind |-> kind, results |-> results]

\* --------------------------------------------------------------- scan_image
\* Vulnerability(image=image_ref, **vuln)
Vulnerability(image_ref, vuln) ==
    [k \in DOMAIN vuln \cup {"image"} |->
        IF k = "image" THEN PyStr(image_ref) ELSE vuln[k]]

\* sev_counts[sev] = sev_counts.get(sev, 0) + 1
Increment(sev_counts, sev) ==
    [k \in DOMAIN sev_counts \cup {sev} |->
        IF k = sev THEN Get(sev_counts, sev, 0) + 1 ELSE sev_counts[k]]

AddVuln_raw_key(acc, image_ref, vuln) ==
    LET counted == [acc EXCEPT !.findings = @ + 1]
        sev == Get(vuln.d, "Severity", PyStr("UNKNOWN")).v
        keyed == [counted EXCEPT !.sev_counts = Increment(@, sev)]
    IN  IF vuln.t # "dict" THEN [counted EXCEPT !.raised = TRUE]
        ELSE IF "image" \in DOMAIN vuln.d THEN [keyed EXCEPT !.raised = TRUE]
        ELSE [keyed EXCEPT !.vulnerabilities =
                               Append(@, Vulnerability(image_ref, vuln.d))]

\* Body of the inner loop for one element of "Vulnerabilities". vuln.get on a
\* non-dict raises AttributeError after findings was incremented; a dict
\* that has an "image" key makes Vulnerability(image=..., **vuln) raise
\* TypeError after sev_counts was incremented.
AddVuln(acc, image_ref, vuln) ==
    LET counted == [acc EXCEPT !.findings = @ + 1]
        sev == upper(Get(vuln.d, "Severity", PyStr("UNKNOWN")).v)
        keyed == [counted EXCEPT !.sev_counts = Increment(@, sev)]
    IN  IF vuln.t # "dict" THEN [counted EXCEPT !.raised = TRUE]
        ELSE IF "image" \in DOMAIN vuln.d THEN [keyed EXCEPT !.raised = TRUE]
        ELSE [keyed EXCEPT !.vulnerabilities =
                               Append(@, Vulnerability(image_ref, vuln.d))]

\* for vuln in result.get("Vulnerabilities", []) or []: an exception leaves
\* the loop.
RECURSIVE VulnLoop(_, _, _)
VulnLoop(acc, image_ref, vulns) ==
    IF acc.raised \/ vulns = <<>> THEN acc
    ELSE VulnLoop(AddVuln(acc, image_ref, Head(vulns)), image_ref, Tail(vulns))

\* for result in data.get("Results", []): result.get on a non-dict raises.
RECURSIVE ResultLoop(_, _, _)
ResultLoop(acc, image_ref, results) ==
    IF acc.raised \/ results = <<>> THEN acc
    ELSE LET result == Head(results)
             next == IF result.kind = "notdict" THEN [acc EXCEPT !.raised = TRUE]
                     ELSE IF result.kind = "list"
                          THEN VulnLoop(acc, image_ref, result.vulns)
                          ELSE acc
         IN  ResultLoop(next, image_ref, Tail(results))

\* scan_image(image_ref) when the scanner left `artifact` at json_path.
\* json.load failing gives data = {}; every exception of the loops is
\* swallowed and what was accumulated so far is returned. The temporary
\* file's name (json_path) is not modelled.
scan_image(image_ref, artifact) ==
    LET empty == [findings |-> 0, sev_counts |-> EmptyDict,
                  vulnerabilities |-> <<>>, raised |-> FALSE]
        acc == IF artifact.kind = "ok"
               THEN ResultLoop(empty, image_ref, artifact.results)
               ELSE empty
    IN  [image |-> image_ref, findings |-> acc.findings,
         sev_counts |-> acc.sev_counts, vulnerabilities |-> acc.vulnerabilities,
         containers |-> <<>>]

\* ----------------------------------------------------------------- scan_all
\* Python orders str by code point; the image references of the model in
\* that order.
StringOrder == <<"alpine:3", "nginx:latest", "sha256:c0ffee">>

StrLess(a, b) ==
    (CHOOSE i \in 1..Len(StringOrder) : StringOrder[i] = a)
        < (CHOOSE i \in 1..Len(StringOrder) : StringOrder[i] = b)

\* labels.get("docktor.ignore", "false").lower() == "true"
\*   or labels.get(key, "false").lower() == value, with key, value the two
\* first parts of settings.exclude_label split at "="; a missing second part
\* raises IndexError once the first test is false, and the function then
\* returns False.
has_exclude_label(container, exclude_label) ==
    LET labels == container.labels
        parts == split(exclude_label)
    IN  \/ lower(Get(labels, "docktor.ignore", "false")) = "true"
        \/ /\ Len(parts) >= 2
           /\ lower(Get(labels, parts[1], "false")) = parts[2]

\* c.image.tags[0] if c.image.tags else c.image.id
image_ref_of(c) == IF c.image.tags # <<>> THEN c.image.tags[1] ELSE c.image.id

\* The first loop of scan_all: image_refs and mapping over the containers
\* that do not carry the exclusion label.
RECURSIVE Collect(_, _, _)
Collect(acc, containers, exclude_label) ==
    IF containers = <<>> THEN acc
    ELSE LET c == Head(containers)
             ref == image_ref_of(c)
             next ==
                 IF has_exclude_label(c, exclude_label) THEN acc
                 ELSE [image_refs |-> Append(acc.image_refs, ref),
                       mapping |->
                           [k \in DOMAIN acc.mapping \cup {ref} |->
                               IF k = ref
                               THEN Append(Get(acc.mapping, ref, <<>>), c.name)
                               ELSE acc.mapping[k]]]
         IN  Collect(next, Tail(containers), exclude_label)

Range(seq) == {seq[i] : i \in 1..Len(seq)}

first_seen(refs) ==
    LET RECURSIVE Dedup(_, _)
        Dedup(out, rest) ==
            IF rest = <<>> THEN out
            ELSE Dedup(IF Head(rest) \in Range(out) THEN out
                       ELSE Append(out, Head(rest)), Tail(rest))
    IN  Dedup(<<>>, refs)

\* sorted(set(image_refs))
sorted_set(refs) ==
    LET RECURSIVE Sort(_)
        Sort(S) ==
            IF S = {} THEN <<>>
            ELSE LET m == CHOOSE x \in S : \A y \in S \ {x} : StrLess(x, y)
                 IN  <<m>> \o Sort(S \ {m})
    IN  Sort(Range(refs))

\* The last loop of scan_all: r.containers = mapping.get(r.image, [])
attach_containers(results, mapping) ==
    [i \in 1..Len(results) |->
        [results[i] EXCEPT !.containers = Get(mapping, results[i].image, <<>>)]]

\* ---------------------------------------------------------------- reporting
\* [v for r in results for v in r.vulnerabilities]
RECURSIVE aggregate_vulns(_)
aggregate_vulns(results) ==
    IF results = <<>> THEN <<>>
    ELSE Head(results).vulnerabilities \o aggregate_vulns(Tail(results))

\* list(reversed(SEVERITY_ORDER))
rev_severity_order ==
    [i \in 1..Len(SEVERITY_ORDER) |-> SEVERITY_ORDER[Len(SEVERITY_ORDER) + 1 - i]]

\* {sev: [] for sev in rev_severity_order}
EmptyBuckets == [sev \in Range(rev_severity_order) |-> <<>>]

\* `grouped` is an insertion-ordered dict image -> sev_map, kept as the
\* sequence of its items. grouped[image] = sev_map: a present key keeps its
\* place, a new key goes last.
SetItem(grouped, image, sev_map) ==
    IF \E i \in 1..Len(grouped) : grouped[i].image = image
    THEN [i \in 1..Len(grouped) |->
             IF grouped[i].image = image
             THEN [image |-> image, sev_map |-> sev_map] ELSE grouped[i]]
    ELSE Append(grouped, [image |-> image, sev_map |-> sev_map])

GetItem(grouped, image) ==
    (CHOOSE i \in 1..Len(grouped) : grouped[i].image = image)

\* for r in results: grouped[r.image] = {sev: [] for sev in rev_severity_order}
RECURSIVE InitGroups(_, _)
InitGroups(grouped, results) ==
    IF results = <<>> THEN grouped
    ELSE InitGroups(SetItem(grouped, Head(results).image, EmptyBuckets),
                    Tail(results))

\* Body of the loop over filtered_vulns. v.get("Severity", "UNKNOWN").upper()
\* raises AttributeError when the value is None.
PlaceVuln(acc, v) ==
    LET img_value == Get(v, "image", PyNone)
        img == IF Truthy(img_value) THEN img_value.v ELSE "<unknown>"
        known == \E i \in 1..Len(acc.grouped) : acc.grouped[i].image = img
        g1 == IF known THEN acc.grouped
              ELSE SetItem(acc.grouped, img, EmptyBuckets)
        severity == Get(v, "Severity", PyStr("UNKNOWN"))
        sev == upper(severity.v)
        old == g1[GetItem(g1, img)].sev_map
        new == [k \in DOMAIN old \cup {sev} |->
                   IF k = sev THEN Append(Get(old, sev, <<>>), v) ELSE old[k]]
    IN  IF severity.t # "str" THEN [grouped |-> g1, raised |-> TRUE]
        ELSE [grouped |-> SetItem(g1, img, new), raised |-> FALSE]

RECURSIVE PlaceAll(_, _)
PlaceAll(acc, vulns) ==
    IF acc.raised \/ vulns = <<>> THEN acc
    ELSE PlaceAll(PlaceVuln(acc, Head(vulns)), Tail(vulns))

\* The buckets of one image, from the highest severity to the lowest, the
\* empty ones left out.
Compact(sev_map) ==
    LET RECURSIVE Ordered(_)
        Ordered(i) ==
            IF i > Len(rev_severity_order) THEN <<>>
            ELSE LET sev == rev_severity_order[i]
                 IN  (IF sev \in DOMAIN sev_map /\ sev_map[sev] # <<>>
                      THEN <<[severity |-> sev, items |-> sev_map[sev]]>>
                      ELSE <<>>) \o Ordered(i + 1)
    IN  Ordered(1)

group_keep_all(results, threshold) ==
    LET acc == PlaceAll([grouped |-> InitGroups(<<>>, results), raised |-> FALSE],
                        aggregate_vulns(results))
    IN  [raised |-> acc.raised,
         report |-> IF acc.raised THEN <<>>
                    ELSE [i \in 1..Len(acc.grouped) |->
                             [image |-> acc.grouped[i].image,
                              severities |-> Compact(acc.grouped[i].sev_map)]]]

\* group_vulns_by_image_and_severity(results) with
\* settings.min_notify_severity = threshold. raised: an AttributeError left
\* the function and nothing was returned.
group_vulns_by_image_and_severity(results, threshold) ==
    LET all_vulns == aggregate_vulns(results)
        Meets(v) == meets_threshold(Get(v, "Severity", PyStr("UNKNOWN")), threshold)
        filtered_vulns == SelectSeq(all_vulns, Meets)
        acc == PlaceAll([grouped |-> InitGroups(<<>>, results), raised |-> FALSE],
                        filtered_vulns)
    IN  [raised |-> acc.raised,
         report |-> IF acc.raised THEN <<>>
                    ELSE [i \in 1..Len(acc.grouped) |->
                             [image |-> acc.grouped[i].image,
                              severities |-> Compact(acc.grouped[i].sev_map)]]]

\* The sort key of build_attachments: minus the index in SEVERITY_ORDER, or
\* minus len(SEVERITY_ORDER) for a severity that is not in it.
SortKey(v) ==
    LET sev == upper(Get(v, "Severity", PyStr("UNKNOWN")).v)
    IN  IF sev \in DOMAIN SEV_RANK THEN 0 - SEV_RANK[sev]
        ELSE 0 - Len(SEVERITY_ORDER)

\* sorted(r.vulnerabilities, key=...): stable, ascending key.
RECURSIVE sorted_by_key(_)
sorted_by_key(vulns) ==
    IF vulns = <<>> THEN <<>>
    ELSE LET n == Len(vulns)
             front == sorted_by_key(SubSeq(vulns, 1, n - 1))
             last == vulns[n]
             Before(v) == SortKey(v) <= SortKey(last)
             After(v) == SortKey(v) > SortKey(last)
         IN  SelectSeq(front, Before) \o <<last>> \o SelectSeq(front, After)

\* The loop of build_attachments: one Markdown report per image (and the
\* JSON artifact when settings.attach_json). The key function calls
\* .upper() on every finding's severity and raises AttributeError on None:
\* the reports of the images before it are already written.
RECURSIVE build_attachments(_, _, _)
build_attachments(acc, results, attach_json) ==
    IF acc.raised \/ results = <<>> THEN acc
    ELSE LET r == Head(results)
             bad == \E i \in 1..Len(r.vulnerabilities) :
                        Get(r.vulnerabilities[i], "Severity", PyStr("UNKNOWN")).t # "str"
             md == [name |-> "report.md", image |-> r.image,
                    vulnerabilities |-> sorted_by_key(r.vulnerabilities)]
             json == [name |-> "trivy.json", image |-> r.image,
                      vulnerabilities |-> <<>>]
         IN  build_attachments(
                 IF bad THEN [acc EXCEPT !.raised = TRUE]
                 ELSE [acc EXCEPT !.attachments =
                           @ \o <<md>> \o (IF attach_json THEN <<json>> ELSE <<>>)],
                 Tail(results), attach_json)

\* ------------------------------------------------------------------- inputs
SeqsUpTo(S, n) == UNION {[1..k -> S] : k \in 0..n}

\* Images of the host: tagged, untagged (scanned by id), several tags.
NginxImage == [tags |-> <<"nginx:latest">>, id |-> "sha256:1111"]
UntaggedImage == [tags |-> <<>>, id |-> "sha256:c0ffee"]
AlpineImage == [tags |-> <<"alpine:3", "alpine:latest">>, id |-> "sha256:2222"]
Images == {NginxImage, UntaggedImage, AlpineImage}
ImageRefs == Range(StringOrder)

\* Config.Labels of a container.
LabelSets == {EmptyDict, "docktor.ignore" :> "True", "scan.skip" :> "YES"}

\* EXCLUDE_LABEL: the default, a lower-case value, an upper-case value, and
\* a value without "=".
ExcludeLabels == {"docktor.ignore=true", "scan.skip=yes", "scan.skip=YES", "scan.skip"}

\* Container names are unique on a host.
ContainerNames == <<"web", "db", "api", "cache", "proxy">>

ContainerLists(n) ==
    {[i \in 1..Len(f) |->
         [name |-> ContainerNames[i], image |-> f[i][1], labels |-> f[i][2]]] :
        f \in SeqsUpTo(Images \X LabelSets, n)}

\* Records of a "Vulnerabilities" list that scan_image stores.
VHigh == DictItem([VulnerabilityID |-> PyStr("CVE-1"), Severity |-> PyStr("HIGH")])
VHighLower == DictItem([VulnerabilityID |-> PyStr("CVE-2"), Severity |-> PyStr("high")])
VLow == DictItem([VulnerabilityID |-> PyStr("CVE-3"), Severity |-> PyStr("low")])
VBogus == DictItem([VulnerabilityID |-> PyStr("CVE-4"), Severity |-> PyStr("bogus")])
VNull == DictItem([VulnerabilityID |-> PyStr("CVE-5"), Severity |-> PyNone])
VNoSeverity == DictItem([VulnerabilityID |-> PyStr("CVE-6")])
VCritical == DictItem([Severity |-> PyStr("Critical")])
StoredItems == {VHigh, VHighLower, VLow, VBogus, VNull, VNoSeverity}

\* Records that make scan_image's loop raise: a JSON string in place of an
\* object, and an object that has an "image" key of its own.
VImageKey == DictItem([VulnerabilityID |-> PyStr("CVE-7"), Severity |-> PyStr("MEDIUM"),
                       image |-> PyStr("registry/app")])
MalformedItems == {StrItem, VImageKey}

\* What the scanner leaves behind when it fails or finds nothing to parse.
FailedArtifacts ==
    {Artifact("invalid", <<>>), Artifact("notdict", <<>>),
     Artifact("noresults", <<>>), Artifact("nullresults", <<>>)}

\* MIN_NOTIFY_SEVERITY as set in the environment; Settings.load upper-cases it.
ThresholdEnv == {"", "unknown", "LOW", "Medium", "high", "Critical", "bogus"}

\* -------------------------------------------------------------------- state
VARIABLES
    pc,                   \* where main() is, or the call of a function alone
    containers,           \* what enumerate_containers() returned
    exclude_label,        \* settings.exclude_label
    min_notify_severity,  \* settings.min_notify_severity
    attach_json,          \* settings.attach_json
    trivy,                \* image reference -> what the scanner writes for it
    unique_refs,          \* scan_all: sorted(set(image_refs))
    mapping,              \* scan_all: image reference -> container names
    results,              \* scan_all / main: the ScanResult list
    scanned,              \* image references the scanner was run on, in order
    any_trigger,          \* main: the notification gate
    grouped,              \* render_reports: context["grouped_vulnerabilities"]
    attachments,          \* build_attachments: what was written and attached
    effects,              \* downstream steps main has invoked, in order
    arg,                  \* arguments of a function called alone
    ret                   \* its return value

vars == <<pc, containers, exclude_label, min_notify_severity, attach_json, trivy,
          unique_refs, mapping, results, scanned, any_trigger, grouped,
          attachments, effects, arg, ret>>

settings_vars == <<exclude_label, min_notify_severity, attach_json>>
call_vars == <<arg, ret>>

\* main() before its first statement, nothing scanned yet.
Fresh ==
    /\ pc = "start"
    /\ unique_refs = <<>>
    /\ mapping = EmptyDict
    /\ results = <<>>
    /\ scanned = <<>>
    /\ any_trigger = FALSE
    /\ grouped = <<>>
    /\ attachments = <<>>
    /\ effects = <<>>
    /\ arg = <<>>
    /\ ret = <<>>

\* ---------------------------------------------------------------- main, steps
\* main: containers = enumerate_containers(); scan_all(containers) up to its
\* first scan. With nothing to scan scan_all returns [] and main returns.
ScanAllBegin ==
    /\ pc = "start"
    /\ LET acc == Collect([image_refs |-> <<>>, mapping |-> EmptyDict],
                          containers, exclude_label)
           refs == sorted_set(acc.image_refs)
       IN  /\ mapping' = acc.mapping
           /\ unique_refs' = refs
           /\ pc' = IF refs = <<>> THEN "done" ELSE "scanning"
    /\ UNCHANGED <<containers, settings_vars, trivy, results, scanned, any_trigger,
                   grouped, attachments, effects, call_vars>>

ScanNext_abort_on_failure ==
    /\ pc = "scanning"
    /\ Len(results) < Len(unique_refs)
    /\ LET image_ref == unique_refs[Len(results) + 1]
       IN  /\ scanned' = Append(scanned, image_ref)
           /\ IF trivy[image_ref].kind = "ok"
              THEN /\ results' = Append(results, scan_image(image_ref, trivy[image_ref]))
                   /\ pc' = pc
              ELSE /\ results' = attach_containers(results, mapping)
                   /\ pc' = "gate"
    /\ UNCHANGED <<containers, settings_vars, trivy, unique_refs, mapping,
                   any_trigger, grouped, attachments, effects, call_vars>>

\* scan_all: one turn of `for image_ref in unique_refs`.
ScanNext ==
    /\ pc = "scanning"
    /\ Len(results) < Len(unique_refs)
    /\ LET image_ref == unique_refs[Len(results) + 1]
       IN  /\ scanned' = Append(scanned, image_ref)
           /\ results' = Append(results, scan_image(image_ref, trivy[image_ref]))
    /\ UNCHANGED <<pc, containers, settings_vars, trivy, unique_refs, mapping,
                   any_trigger, grouped, attachments, effects, call_vars>>

\* scan_all: the container names are attached and the list is returned to
\* main, which goes on since the list is not empty.
ScanAllReturn ==
    /\ pc = "scanning"
    /\ Len(results) = Len(unique_refs)
    /\ results' = attach_containers(results, mapping)
    /\ pc' = "gate"
    /\ UNCHANGED <<containers, settings_vars, trivy, unique_refs, mapping, scanned,
                   any_trigger, grouped, attachments, effects, call_vars>>

always_trigger(rs, threshold) == TRUE

\* any(any(meets_threshold(v.get("Severity", "UNKNOWN"), threshold)
\*         for v in r.vulnerabilities) for r in results)
should_notify(rs, threshold) ==
    \E i \in 1..Len(rs) : \E j \in 1..Len(rs[i].vulnerabilities) :
        meets_threshold(Get(rs[i].vulnerabilities[j], "Severity", PyStr("UNKNOWN")),
                        threshold)

\* main: any_trigger is computed; when false the run ends here.
Gate ==
    /\ pc = "gate"
    /\ any_trigger' = should_notify(results, min_notify_severity)
    /\ pc' = IF any_trigger' THEN "render" ELSE "done"
    /\ UNCHANGED <<containers, settings_vars, trivy, unique_refs, mapping, results,
                   scanned, grouped, attachments, effects, call_vars>>

\* main: render_reports(results), which groups the findings for the
\* templates; an exception of the grouping leaves main.
RenderReports ==
    /\ pc = "render"
    /\ effects' = Append(effects, "render_reports")
    /\ LET g == group_vulns_by_image_and_severity(results, min_notify_severity)
       IN  /\ grouped' = g.report
           /\ pc' = IF g.raised THEN "raised" ELSE "attach"
    /\ UNCHANGED <<containers, settings_vars, trivy, unique_refs, mapping, results,
                   scanned, any_trigger, attachments, call_vars>>

\* main: build_attachments(results).
BuildAttachments ==
    /\ pc = "attach"
    /\ effects' = Append(effects, "build_attachments")
    /\ LET b == build_attachments([attachments |-> <<>>, raised |-> FALSE],
                                  results, attach_json)
       IN  /\ attachments' = b.attachments
           /\ pc' = IF b.raised THEN "raised" ELSE "send"
    /\ UNCHANGED <<containers, settings_vars, trivy, unique_refs, mapping, results,
                   scanned, any_trigger, grouped, call_vars>>

\* main: send_email_with_attachments(...).
SendEmail ==
    /\ pc = "send"
    /\ effects' = Append(effects, "send_email_with_attachments")
    /\ pc' = "done"
    /\ UNCHANGED <<containers, settings_vars, trivy, unique_refs, mapping, results,
                   scanned, any_trigger, grouped, attachments, call_vars>>

Next ==
    \/ ScanAllBegin
    \/ ScanNext
    \/ ScanAllReturn
    \/ Gate
    \/ RenderReports
    \/ BuildAttachments
    \/ SendEmail

\* Runs of main over container lists with labels and every EXCLUDE_LABEL;
\* every image scans alike.
Init ==
    /\ Fresh
    /\ containers \in ContainerLists(MaxContainers)
    /\ exclude_label \in ExcludeLabels
    /\ min_notify_severity = upper("LOW")
    /\ attach_json = TRUE
    /\ \E a \in {Artifact("invalid", <<>>), Artifact("ok", <<Entry("list", <<VHigh>>)>>)} :
           trivy = [r \in ImageRefs |-> a]

Spec == Init /\ [][Next]_vars

\* Runs of main over one or two unlabelled containers, every threshold and
\* every short list of findings for the first image.
ReportContainers ==
    {<<>>,
     <<[name |-> "web", image |-> NginxImage, labels |-> EmptyDict]>>,
     <<[name |-> "web", image |-> NginxImage, labels |-> EmptyDict],
       [name |-> "db", image |-> AlpineImage, labels |-> EmptyDict]>>}

FindingsArtifacts ==
    {Artifact("ok", <<Entry("list", vs)>>) : vs \in SeqsUpTo(StoredItems, MaxRecords)}

InitReport ==
    /\ Fresh
    /\ containers \in ReportContainers
    /\ exclude_label = "docktor.ignore=true"
    /\ \E e \in ThresholdEnv : min_notify_severity = upper(e)
    /\ attach_json \in BOOLEAN
    /\ \E a \in FindingsArtifacts \cup FailedArtifacts,
          n \in {Artifact("invalid", <<>>),
                 Artifact("ok", <<Entry("list", <<VHigh>>)>>),
                 Artifact("ok", <<Entry("list", <<VLow, VCritical>>)>>)} :
           trivy = [r \in ImageRefs |->
                       IF r = "alpine:3" THEN a
                       ELSE IF r = "nginx:latest" THEN n
                       ELSE Artifact("invalid", <<>>)]

SpecReport == InitReport /\ [][Next]_vars

\* ------------------------------------------------- functions called alone
\* Everything main touches, untouched.
Idle ==
    /\ containers = <<>>
    /\ exclude_label = "docktor.ignore=true"
    /\ min_notify_severity = "LOW"
    /\ attach_json = TRUE
    /\ trivy = [r \in ImageRefs |-> Artifact("invalid", <<>>)]
    /\ unique_refs = <<>>
    /\ mapping = EmptyDict
    /\ results = <<>>
    /\ scanned = <<>>
    /\ any_trigger = FALSE
    /\ grouped = <<>>
    /\ attachments = <<>>
    /\ effects = <<>>

main_vars == <<containers, settings_vars, trivy, unique_refs, mapping, results,
               scanned, any_trigger, grouped, attachments, effects>>

\* Severity and threshold strings: empty, the five levels in several
\* cases, and strings that are no level.
SeverityStrings ==
    {"", "UNKNOWN", "unknown", "LOW", "low", "MEDIUM", "Medium", "HIGH", "high",
     "CRITICAL", "Critical", "bogus", "BOGUS"}

InitSeverity ==
    /\ Idle
    /\ pc = "call"
    /\ arg \in [severity : SeverityStrings, threshold : SeverityStrings]
    /\ ret = FALSE

CallMeetsThreshold ==
    /\ pc = "call"
    /\ ret' = meets_threshold(PyStr(arg.severity), arg.threshold)
    /\ pc' = "returned"
    /\ UNCHANGED <<main_vars, arg>>

SpecSeverity == InitSeverity /\ [][CallMeetsThreshold]_vars

\* Elements of "Results" that follow the first one.
TailEntries ==
    {Entry("notdict", <<>>), Entry("null", <<>>), Entry("list", <<VCritical>>)}

ScanItems == StoredItems \cup MalformedItems

FirstEntries ==
    {Entry("list", vs) : vs \in SeqsUpTo(ScanItems, MaxRecords)}
        \cup {Entry("notdict", <<>>), Entry("absent", <<>>), Entry("null", <<>>)}

ScanArtifacts ==
    FailedArtifacts \cup {Artifact("ok", <<>>)}
        \cup {Artifact("ok", <<first>> \o tail) :
                 first \in FirstEntries,
                 tail \in SeqsUpTo(TailEntries, MaxResultEntries - 1)}

InitScanImage ==
    /\ Idle
    /\ pc = "call"
    /\ arg \in [image_ref : ImageRefs, artifact : ScanArtifacts]
    /\ ret = <<>>

CallScanImage ==
    /\ pc = "call"
    /\ ret' = scan_image(arg.image_ref, arg.artifact)
    /\ pc' = "returned"
    /\ UNCHANGED <<main_vars, arg>>

SpecScanImage == InitScanImage /\ [][CallScanImage]_vars

\* ------------------------------------------------------------------- claims
\* rank as the specification words it: the position of the case-folded level
\* in UNKNOWN < LOW < MEDIUM < HIGH < CRITICAL, and 0 for anything else.
ClaimRank(s) ==
    LET u == upper(s)
    IN  CASE u = "LOW" -> 1
          [] u = "MEDIUM" -> 2
          [] u = "HIGH" -> 3
          [] u = "CRITICAL" -> 4
          [] OTHER -> 0

\* C1, as claimed: for every pair of strings meets_threshold returns
\* rank(severity) >= rank(threshold), an empty or unrecognized string on
\* either side having rank 0.
C1_EmptyThresholdRanksZero ==
    pc = "returned" =>
        ret = (ClaimRank(arg.severity) >= ClaimRank(arg.threshold))

\* C1, amended: for every pair of strings meets_threshold returns
\* rank(severity) >= rank(threshold), where an empty or unrecognized severity
\* and an unrecognized threshold have rank 0 and an empty threshold stands
\* for LOW (rank 1).
C1_MeetsThreshold ==
    pc = "returned" =>
        /\ ret \in BOOLEAN
        /\ ret = (ClaimRank(arg.severity) >=
                     IF arg.threshold = "" THEN 1 ELSE ClaimRank(arg.threshold))

\* An empty threshold rejected a severity of rank 0.
C1_Witness ==
    /\ pc = "returned"
    /\ arg.threshold = ""
    /\ arg.severity \in {"", "unknown", "bogus"}
    /\ ret = FALSE

RECURSIVE SumValues(_)
SumValues(d) ==
    IF DOMAIN d = {} THEN 0
    ELSE LET k == CHOOSE x \in DOMAIN d : TRUE
         IN  d[k] + SumValues([x \in DOMAIN d \ {k} |-> d[x]])

\* C2: the ScanResult returned by scan_image has
\* findings == sum(sev_counts.values()) == len(vulnerabilities).
C2_CountsAgree ==
    pc = "returned" =>
        /\ ret.findings = SumValues(ret.sev_counts)
        /\ ret.findings = Len(ret.vulnerabilities)

\* A record scan_image can store: a JSON object without a key "image".
WellFormed(item) == item.t = "dict" /\ "image" \notin DOMAIN item.d

\* C7: a malformed record is skipped alone; every well-formed record after it
\* in the same scan output is counted and appended to the ScanResult.
C7_LaterRecordsKept ==
    (pc = "returned" /\ arg.artifact.kind = "ok") =>
        \A e \in 1..Len(arg.artifact.results) :
            LET entry == arg.artifact.results[e]
            IN  (/\ entry.kind = "list"
                 /\ \A d \in 1..(e - 1) : arg.artifact.results[d].kind # "notdict")
                => \A j, k \in 1..Len(entry.vulns) :
                       (j < k /\ ~WellFormed(entry.vulns[j]) /\ WellFormed(entry.vulns[k]))
                       => Vulnerability(arg.image_ref, entry.vulns[k].d)
                              \in Range(ret.vulnerabilities)

Levels == Range(SEVERITY_ORDER)

\* The objects among the records of the scanner's output.
DictRecords(artifact) ==
    UNION {{artifact.results[e].vulns[k].d :
               k \in {j \in 1..Len(artifact.results[e].vulns) :
                         artifact.results[e].vulns[j].t = "dict"}} :
           e \in 1..Len(artifact.results)}

\* C9, as claimed: every key of sev_counts and every severity stored on a
\* finding is one of UNKNOWN, LOW, MEDIUM, HIGH, CRITICAL.
C9_OnlyCanonicalLevels ==
    pc = "returned" =>
        /\ DOMAIN ret.sev_counts \subseteq Levels
        /\ \A i \in 1..Len(ret.vulnerabilities) :
               /\ "Severity" \in DOMAIN ret.vulnerabilities[i]
               /\ ret.vulnerabilities[i]["Severity"].t = "str"
               /\ ret.vulnerabilities[i]["Severity"].v \in Levels

\* C9, amended: every key of sev_counts is the upper-cased text of the
\* Severity of a record of the output (UNKNOWN for a record without one), so
\* an unrecognized severity is counted under its own upper-cased name; every
\* stored finding is a record of the output with the image added, its
\* Severity unchanged, and its upper-cased severity is a key of sev_counts.
C9_UppercasedKeysRawFindings ==
    pc = "returned" =>
        LET recs == DictRecords(arg.artifact)
            Key(d) == upper(Get(d, "Severity", PyStr("UNKNOWN")).v)
        IN  /\ \A k \in DOMAIN ret.sev_counts : \E d \in recs : k = Key(d)
            /\ \A i \in 1..Len(ret.vulnerabilities) :
                   LET v == ret.vulnerabilities[i]
                   IN  /\ [k \in DOMAIN v \ {"image"} |-> v[k]] \in recs
                       /\ v["image"] = PyStr(arg.image_ref)
                       /\ Key(v) \in DOMAIN ret.sev_counts

\* An unrecognized, lower-case severity was counted under BOGUS and stored
\* as it came.
C9_Witness ==
    /\ pc = "returned"
    /\ "BOGUS" \in DOMAIN ret.sev_counts
    /\ "UNKNOWN" \notin DOMAIN ret.sev_counts
    /\ \E i \in 1..Len(ret.vulnerabilities) :
           Get(ret.vulnerabilities[i], "Severity", PyNone) = PyStr("bogus")

\* scan_all has returned to main (or main has ended).
ScanAllReturned == pc \notin {"start", "scanning"}

\* The severity main and the grouping read from a stored finding.
SeverityOf(v) == Get(v, "Severity", PyStr("UNKNOWN"))

\* Some finding of some ScanResult meets the configured threshold.
SomeFindingMeets ==
    \E r \in Range(results) : \E v \in Range(r.vulnerabilities) :
        meets_threshold(SeverityOf(v), min_notify_severity)

\* C3: the gate is true exactly when some finding of some ScanResult meets
\* the threshold; rendering, attachment building and sending are invoked
\* only in states where the gate has evaluated to true, and a run whose gate
\* is false or that has no results ends without any of them.
C3_GateGuardsPipeline ==
    /\ [](/\ pc \in {"render", "attach", "send", "raised"} => any_trigger
          /\ (ScanAllReturned /\ pc # "gate") => (any_trigger <=> SomeFindingMeets)
          /\ ~any_trigger => (effects = <<>> /\ grouped = <<>> /\ attachments = <<>>)
          /\ (pc = "done" /\ results = <<>>) => effects = <<>>)
    /\ [][effects' # effects => (any_trigger /\ any_trigger')]_vars

\* A run with findings, none of which meets the threshold, has ended with
\* nothing rendered, attached or sent.
C3_Witness ==
    /\ pc = "done"
    /\ \E r \in Range(results) : r.findings > 0
    /\ ~any_trigger
    /\ effects = <<>>

\* The containers scan_all does not skip, in input order.
Kept == SelectSeq(containers, LAMBDA c : ~has_exclude_label(c, exclude_label))

NamesUsing(ref) ==
    LET using == SelectSeq(Kept, LAMBDA c : image_ref_of(c) = ref)
    IN  [i \in 1..Len(using) |-> using[i].name]

\* C4: scan_all scans each distinct image reference of the non-excluded
\* containers exactly once, in ascending order, and each result carries the
\* names of the non-excluded containers using its image, in input order.
C4_DedupSortedMapping ==
    ScanAllReturned =>
        /\ Range(scanned) = {image_ref_of(c) : c \in Range(Kept)}
        /\ \A i, j \in 1..Len(scanned) : i < j => StrLess(scanned[i], scanned[j])
        /\ Len(results) = Len(scanned)
        /\ \A i \in 1..Len(results) :
               /\ results[i].image = scanned[i]
               /\ results[i].containers = NamesUsing(scanned[i])

\* Three containers, the first and third sharing the image that sorts last.
C4_Witness ==
    /\ pc = "gate"
    /\ Len(containers) = 3
    /\ scanned = <<"alpine:3", "nginx:latest">>
    /\ results[1].containers = <<"db">>
    /\ results[2].containers = <<"web", "api">>

\* The container's labels hold docktor.ignore=true or the key=value pair
\* of EXCLUDE_LABEL.
CarriesExclusionLabel(c) ==
    \/ Get(c.labels, "docktor.ignore", "") = "true"
    \/ /\ Len(split(exclude_label)) = 2
       /\ split(exclude_label)[1] \in DOMAIN c.labels
       /\ c.labels[split(exclude_label)[1]] = split(exclude_label)[2]

\* C5: a container that carries the exclusion label is skipped by scan_all:
\* its name is in no result's container list, and its image is scanned only
\* if a container that does not carry the label uses it too.
C5_LabelledContainersSkipped ==
    ScanAllReturned =>
        \A c \in Range(containers) :
            CarriesExclusionLabel(c) =>
                /\ \A r \in Range(results) : c.name \notin Range(r.containers)
                /\ image_ref_of(c) \in Range(scanned) =>
                       \E o \in Range(containers) :
                           /\ ~CarriesExclusionLabel(o)
                           /\ image_ref_of(o) = image_ref_of(c)

\* render_reports has grouped the findings and the grouping returned.
GroupReturned ==
    /\ effects # <<>>
    /\ ~(pc = "raised" /\ Len(effects) = 1)

ResultOf(image) == CHOOSE r \in Range(results) : r.image = image

BucketRank(bucket) == ClaimRank(bucket.severity)

\* C6: the grouped report has exactly one entry for each image of the
\* results, without buckets when none of its findings meets the threshold;
\* the buckets of an entry are non-empty, hold only findings that meet the
\* threshold, and come in strictly descending severity order
\* CRITICAL > HIGH > MEDIUM > LOW > UNKNOWN.
C6_OneEntryPerImageOrderedBuckets ==
    GroupReturned =>
        /\ \A r \in Range(results) :
               Cardinality({i \in 1..Len(grouped) : grouped[i].image = r.image}) = 1
        /\ \A i \in 1..Len(grouped) :
               LET entry == grouped[i]
                   bs == entry.severities
               IN  /\ \E r \in Range(results) : r.image = entry.image
                   /\ (\A v \in Range(ResultOf(entry.image).vulnerabilities) :
                           ~meets_threshold(SeverityOf(v), min_notify_severity))
                      => bs = <<>>
                   /\ \A b \in 1..Len(bs) :
                          /\ bs[b].severity \in Levels
                          /\ bs[b].items # <<>>
                          /\ \A v \in Range(bs[b].items) :
                                 meets_threshold(SeverityOf(v), min_notify_severity)
                   /\ \A a, b \in 1..Len(bs) :
                          a < b => BucketRank(bs[a]) > BucketRank(bs[b])

\* One image has findings and no bucket, another has two buckets.
C6_Witness ==
    /\ GroupReturned
    /\ \E i, j \in 1..Len(grouped) :
           /\ grouped[i].severities = <<>>
           /\ ResultOf(grouped[i].image).findings > 0
           /\ Len(grouped[j].severities) = 2

\* The records the scanner wrote for an image, when its output is one
\* result entry holding only records scan_image can store.
PlainRecords(artifact) ==
    IF /\ artifact.kind = "ok"
       /\ Len(artifact.results) = 1
       /\ artifact.results[1].kind = "list"
       /\ \A k \in 1..Len(artifact.results[1].vulns) :
              WellFormed(artifact.results[1].vulns[k])
    THEN artifact.results[1].vulns
    ELSE <<>>

\* C8: when the scanner fails or writes nothing parseable for some images,
\* scan_all still returns one ScanResult per distinct image; those of the
\* failed images have findings == 0 and empty sev_counts and
\* vulnerabilities, and those of the other images hold exactly their own
\* records, whatever happened to the rest.
C8_FailedScansDegrade ==
    ScanAllReturned =>
        /\ Len(results) = Cardinality({image_ref_of(c) : c \in Range(Kept)})
        /\ \A c \in Range(Kept) : \E r \in Range(results) : r.image = image_ref_of(c)
        /\ \A r \in Range(results) :
               /\ trivy[r.image] \in FailedArtifacts =>
                      /\ r.findings = 0
                      /\ DOMAIN r.sev_counts = {}
                      /\ r.vulnerabilities = <<>>
               /\ trivy[r.image] \notin FailedArtifacts =>
                      LET recs == PlainRecords(trivy[r.image])
                      IN  /\ r.findings = Len(recs)
                          /\ r.vulnerabilities =
                                 [k \in 1..Len(recs) |-> Vulnerability(r.image, recs[k].d)]

\* The scan of the first image failed and the second image has its findings.
C8_Witness ==
    /\ pc = "gate"
    /\ Len(results) = 2
    /\ trivy[results[1].image] \in FailedArtifacts
    /\ results[1].findings = 0
    /\ results[2].findings > 0

\* C10: for every image and level the bucket holds exactly the image's
\* findings of that case-folded severity that meet the threshold, once each
\* and in the order of the ScanResult, and no finding that meets the
\* threshold is missing from the grouped report.
C10_BucketsHoldAllMeeting ==
    GroupReturned =>
        \A r \in Range(results) :
            LET entry == grouped[CHOOSE i \in 1..Len(grouped) : grouped[i].image = r.image]
                Meeting(v) == meets_threshold(SeverityOf(v), min_notify_severity)
            IN  /\ \A level \in Levels :
                       LET Mine(v) == Meeting(v) /\ upper(SeverityOf(v).v) = level
                           want == SelectSeq(r.vulnerabilities, Mine)
                       IN  IF want = <<>>
                           THEN \A b \in Range(entry.severities) : b.severity # level
                           ELSE \E b \in Range(entry.severities) :
                                    b.severity = level /\ b.items = want
                /\ \A v \in Range(r.vulnerabilities) :
                       Meeting(v) => \E b \in Range(entry.severities) :
                                         v \in Range(b.items)

\* The rank the specification gives the severity stored on a finding.
FindingRank(v) == ClaimRank(SeverityOf(v).v)

\* C11: in the per-image attachment the findings of the image come by
\* descending severity rank, equal ranks in their original order, and a
\* finding whose severity is absent or unrecognized ranks lowest: it never
\* precedes a finding of severity LOW or higher.
C11_DescendingRankUnknownLast ==
    \A a \in Range(attachments) :
        a.name = "report.md" =>
            LET sorted == a.vulnerabilities
                original == ResultOf(a.image).vulnerabilities
            IN  /\ Len(sorted) = Len(original)
                /\ \A i, j \in 1..Len(sorted) :
                       i < j => FindingRank(sorted[i]) >= FindingRank(sorted[j])
                /\ \A k \in 0..(Len(SEVERITY_ORDER) - 1) :
                       SelectSeq(sorted, LAMBDA v : FindingRank(v) = k)
                           = SelectSeq(original, LAMBDA v : FindingRank(v) = k)
                /\ \A i, j \in 1..Len(sorted) :
                       (FindingRank(sorted[i]) = 0 /\ FindingRank(sorted[j]) >= 1)
                       => j < i

\* What group_vulns_by_image_and_severity gives for the results and the
\* threshold of the run.
GroupingNow == group_vulns_by_image_and_severity(results, min_notify_severity)

HasBucket(report) == \E e \in Range(report) : e.severities # <<>>

\* C12: the gate and the grouped report agree: when main decides to notify,
\* the grouping completes without raising and yields a non-empty bucket, and
\* when main suppresses the notification the grouped report has none.
C12_GateAgreesWithGrouping ==
    (ScanAllReturned /\ pc # "gate" /\ results # <<>>) =>
        /\ any_trigger => (~GroupingNow.raised /\ HasBucket(GroupingNow.report))
        /\ ~any_trigger => (~GroupingNow.raised /\ ~HasBucket(GroupingNow.report))

====
